---------------------------- MODULE Spec2Model ----------------------------
(***************************************************************************)
(* Model of src/app.py: a Streamlit script that predicts bioactivity from  *)
(* SMILES strings.  One behaviour is one server process: a sequence of     *)
(* script runs, each run a sequence of steps through the script body.      *)
(*                                                                         *)
(* Text values (SMILES cells) are sequences of one-character strings, so   *)
(* that the parser can read them character by character.  Column names     *)
(* and messages are strings.                                               *)
(***************************************************************************)
EXTENDS Integers, Sequences, FiniteSets, TLC

(***************************************************************************)
(* Program constants and bounds.                                           *)
(***************************************************************************)
radius == 2                \* GetMorganGenerator(radius=2, ...)
fpSize == 1024             \* GetMorganGenerator(..., fpSize=1024)
ZeroVectorLen == 1024      \* [0] * 1024
NumFpColumns == 1024       \* range(1024) in the columns= argument
HashWidth == 2^20          \* width kept for the substructure codes before folding

MaxRows == 2               \* data records of an uploaded file
MaxSmilesLen == 3          \* characters of a SMILES string given to the encoder
MaxLoads == 2              \* cap of the per-artifact load counters

None == "None"
NaN == <<"NaN">>           \* pandas' missing value (a float, not a str)

Range(s) == {s[i] : i \in 1..Len(s)}

Min(a, b) == IF a < b THEN a ELSE b

RECURSIVE SumOver(_, _)
SumOver(S, f) ==
    IF S = {} THEN 0
    ELSE LET x == CHOOSE y \in S : TRUE
         IN  f[x] + SumOver(S \ {x}, f)

(***************************************************************************)
(* Chem.MolFromSmiles: the SMILES subset C, N, O, "=", "(", ")".  A parse  *)
(* state is folded over the characters; a string that is not in the        *)
(* grammar, or whose atoms exceed their valence, gives no molecule.        *)
(***************************************************************************)
AtomSymbols == {"C", "N", "O"}

AtomicNum(a) == CASE a = "C" -> 6 [] a = "N" -> 7 [] a = "O" -> 8

MaxValence(a) == CASE a = "C" -> 4 [] a = "N" -> 3 [] a = "O" -> 2

ParseInit ==
    [ok |-> TRUE, atoms |-> <<>>, bonds |-> {}, prev |-> 0,
     stack |-> <<>>, order |-> 1, fresh |-> FALSE]

ParseChar(st, ch) ==
    IF ~st.ok THEN st
    ELSE IF ch \in AtomSymbols THEN
        LET n == Len(st.atoms) + 1
        IN  [st EXCEPT !.ok = ~(st.prev = 0 /\ st.order # 1),
                       !.atoms = Append(st.atoms, ch),
                       !.bonds = IF st.prev = 0 THEN st.bonds
                                 ELSE st.bonds \cup {<<st.prev, n, st.order>>},
                       !.prev = n, !.order = 1, !.fresh = FALSE]
    ELSE IF ch = "=" THEN
        [st EXCEPT !.ok = st.prev # 0 /\ st.order = 1, !.order = 2]
    ELSE IF ch = "(" THEN
        [st EXCEPT !.ok = st.prev # 0 /\ st.order = 1 /\ ~st.fresh,
                   !.stack = Append(st.stack, st.prev), !.fresh = TRUE]
    ELSE IF ch = ")" THEN
        IF st.stack = <<>> \/ st.order # 1 \/ st.fresh
        THEN [st EXCEPT !.ok = FALSE]
        ELSE [st EXCEPT !.prev = st.stack[Len(st.stack)],
                        !.stack = SubSeq(st.stack, 1, Len(st.stack) - 1)]
    ELSE [st EXCEPT !.ok = FALSE]

RECURSIVE ParseFrom(_, _)
ParseFrom(st, s) ==
    IF s = <<>> THEN st ELSE ParseFrom(ParseChar(st, Head(s)), Tail(s))

BondsAt(mol, a) == {b \in mol.bonds : b[1] = a \/ b[2] = a}

Valence(mol, a) ==
    SumOver(BondsAt(mol, a), [b \in BondsAt(mol, a) |-> b[3]])

\* the None that MolFromSmiles returns for a string it cannot parse
NoMol == [isNone |-> TRUE, atoms |-> <<>>, bonds |-> {}]

MolFromSmiles(smiles) ==
    LET st  == ParseFrom(ParseInit, smiles)
        mol == [isNone |-> FALSE, atoms |-> st.atoms, bonds |-> st.bonds]
    IN  IF /\ st.ok
           /\ st.stack = <<>>
           /\ st.order = 1
           /\ \A a \in 1..Len(mol.atoms) :
                  Valence(mol, a) <= MaxValence(mol.atoms[a])
        THEN mol
        ELSE NoMol

(***************************************************************************)
(* morgan_gen.GetFingerprint: every atom contributes one code per layer    *)
(* 0..radius; the code of layer r+1 combines the atom's code of layer r    *)
(* with the (bond order, code) pairs of its neighbours, order-free.  Each  *)
(* code sets bit (code mod fpSize).                                        *)
(***************************************************************************)
Other(b, a) == IF b[1] = a THEN b[2] ELSE b[1]

RECURSIVE EnvCode(_, _, _)
EnvCode(mol, a, r) ==
    IF r = 0
    THEN (AtomicNum(mol.atoms[a]) * 131
            + Cardinality(BondsAt(mol, a)) * 17
            + (MaxValence(mol.atoms[a]) - Valence(mol, a)) * 7) % HashWidth
    ELSE LET nb == BondsAt(mol, a)
         IN  (EnvCode(mol, a, r - 1) * 31 + r * 1009
                + SumOver(nb, [b \in nb |->
                      (b[3] * 257 + EnvCode(mol, Other(b, a), r - 1)) * 37]))
             % HashWidth

OnBits(mol) ==
    {EnvCode(mol, a, r) % fpSize : a \in 1..Len(mol.atoms), r \in 0..radius}

\* the bit vector with the bits of OnBits set
GetFingerprint(mol) ==
    LET on == OnBits(mol)
    IN  [i \in 1..fpSize |-> IF (i - 1) \in on THEN 1 ELSE 0]

\* list(fp): the entries of the bit vector as a list
list(fp) == SubSeq(fp, 1, Len(fp))

\* faulty variant: a fallback vector one entry short
ShortZeroVector == [i \in 1..(ZeroVectorLen - 1) |-> 0]

ZeroVector == [i \in 1..ZeroVectorLen |-> 0]

\* faulty variant: an unparseable string gives a missing value
ComputeOrMissing(smiles) ==
    LET mol == MolFromSmiles(smiles)
    IN  IF ~mol.isNone THEN list(GetFingerprint(mol)) ELSE NaN

\* compute_morgan_fingerprint, for a str argument
compute_morgan_fingerprint(smiles) ==
    LET mol == MolFromSmiles(smiles)
    IN  IF ~mol.isNone THEN list(GetFingerprint(mol)) ELSE ZeroVector


(***************************************************************************)
(* Tables (pandas DataFrames): an ordered list of column names and a list  *)
(* of rows, each row a function from column name to cell.                  *)
(***************************************************************************)
EmptyTable == [cols |-> <<>>, rows |-> <<>>]

IsNa(cell) == cell = NaN

\* df[c] = vals
SetColumn(t, c, vals) ==
    [cols |-> IF c \in Range(t.cols) THEN t.cols ELSE Append(t.cols, c),
     rows |-> [i \in 1..Len(t.rows) |->
                 [k \in (DOMAIN t.rows[i]) \cup {c} |->
                     IF k = c THEN vals[i] ELSE t.rows[i][k]]]]

\* df[[c1, c2, ...]]
Project(t, cs) ==
    [cols |-> cs,
     rows |-> [i \in 1..Len(t.rows) |-> [k \in Range(cs) |-> t.rows[i][k]]]]

\* df.dropna(subset=[c]): a new table without the rows whose c is missing
DropNa(t, c) ==
    [cols |-> t.cols, rows |-> SelectSeq(t.rows, LAMBDA r : ~IsNa(r[c]))]

\* faulty variant: the emptiness test never fires
NeverEmpty(t) == FALSE

\* df.empty: some axis has length 0
IsEmpty(t) == Len(t.cols) = 0 \/ Len(t.rows) = 0

(***************************************************************************)
(* Text of the cells used below.                                           *)
(***************************************************************************)
CCO   == <<"C", "C", "O">>
CCCC  == <<"C", "C", "C", "C">>
AcOH  == <<"C", "C", "(", "=", "O", ")", "O">>
Et3N  == <<"C", "C", "N", "(", "C", "C", ")", "C", "C">>
iPrOH == <<"C", "C", "(", "C", ")", "O">>
Unparseable == <<"C", "(">>
Blank == <<>>

SMILES == "SMILES"
Fingerprint == "Fingerprint"
Predicao == "Predição_Bioatividade"

\* load_example_data: the body of the cached function
ExampleData ==
    [cols |-> <<SMILES>>,
     rows |-> [i \in 1..5 |-> [c \in {SMILES} |->
                  <<CCO, CCCC, AcOH, Et3N, iPrOH>>[i]]]]

(***************************************************************************)
(* pd.read_csv on an uploaded file.  A file is its header fields and its   *)
(* data records (each the list of its fields).  An empty file raises;      *)
(* blank lines are skipped; a first record one field longer than the       *)
(* header makes the first field the row index; a record longer than that   *)
(* raises; empty fields and the NA spellings are read as NaN, and so are   *)
(* missing trailing fields.                                                *)
(***************************************************************************)
NoFile == [present |-> FALSE, header |-> <<>>, records |-> <<>>]

NaValues == {Blank, <<"N", "A">>, <<"N", "a", "N">>}

IsBlankLine(rec) == rec = <<>> \/ rec = <<Blank>>

ColumnIndex(header, c) == CHOOSE j \in 1..Len(header) : header[j] = c

ReadField(rec, j) ==
    IF j > Len(rec) \/ rec[j] \in NaValues THEN NaN ELSE rec[j]

read_csv(file) ==
    LET recs == SelectSeq(file.records, LAMBDA r : ~IsBlankLine(r))
        off  == IF recs # <<>> /\ Len(recs[1]) = Len(file.header) + 1
                THEN 1 ELSE 0
    IN  IF file.header = <<>>
        THEN [exc |-> "EmptyDataError", table |-> EmptyTable]
        ELSE IF \E i \in 1..Len(recs) : Len(recs[i]) > Len(file.header) + off
        THEN [exc |-> "ParserError", table |-> EmptyTable]
        ELSE [exc |-> None,
              table |-> [cols |-> file.header,
                         rows |-> [i \in 1..Len(recs) |->
                            [c \in Range(file.header) |->
                               ReadField(recs[i],
                                  ColumnIndex(file.header, c) + off)]]]]

(***************************************************************************)
(* Uploaded files the user may choose.                                     *)
(***************************************************************************)
SeqsUpTo(S, n) == UNION {[1..k -> S] : k \in 0..n}

File(header, records) ==
    [present |-> TRUE, header |-> header, records |-> records]

UploadPool ==
    \* one column: parseable and unparseable molecules
    {File(<<SMILES>>, r) :
        r \in SeqsUpTo({<<c>> : c \in {CCO, CCCC, Unparseable}}, MaxRows)}
    \cup
    \* a second column, and SMILES cells left empty
    {File(<<"name", SMILES>>, r) :
        r \in SeqsUpTo({<<<<"a">>, c>> : c \in {CCO, Blank}}, MaxRows)}
    \cup
    \* no column named exactly SMILES
    {File(h, r) : h \in {<<"smiles">>, <<"name">>}, r \in {<<>>, <<<<CCO>>>>}}
    \cup
    {File(<<>>, <<>>),                          \* an empty file
     File(<<SMILES>>, <<<<Blank>>>>),           \* a header and a blank line
     File(<<SMILES>>, <<<<<<"a">>, CCO>>>>),    \* a row label before the cell
     File(<<SMILES>>, <<<<CCO>>, <<CCO, CCCC>>>>)}  \* a record too long

(***************************************************************************)
(* Deployment artifacts: the model file and the reference parquet file.    *)
(***************************************************************************)
Trained(features, weights) ==
    [present |-> TRUE, features |-> features, weights |-> weights,
     bias |-> 40]

NoModel == [present |-> FALSE, features |-> <<>>, weights |-> <<>>,
            bias |-> 0]

Parquet(columns) == [present |-> TRUE, columns |-> columns]

NoParquet == [present |-> FALSE, columns |-> <<>>]

ConsistentDeployment ==
    [model   |-> Trained(<<"48", "360", "1023">>, <<7, 11, 23>>),
     parquet |-> Parquet(<<"48", "360", "1023", "pIC50">>)]

Deployments ==
    {ConsistentDeployment,
     [model   |-> Trained(<<"360", "48">>, <<11, 7>>),
      parquet |-> Parquet(<<"360", "48", "pIC50">>)],
     [model   |-> Trained(<<"48", "1024">>, <<7, 5>>),
      parquet |-> Parquet(<<"48", "1024", "pIC50">>)],
     [model   |-> Trained(<<"48", "360", "1023">>, <<7, 11, 23>>),
      parquet |-> Parquet(<<"48", "360", "pIC50">>)],
     [model   |-> NoModel,
      parquet |-> Parquet(<<"48", "360", "pIC50">>)],
     [model   |-> Trained(<<"48", "360">>, <<7, 11>>),
      parquet |-> NoParquet]}

(***************************************************************************)
(* Feature matrix, selection and inference.                                *)
(***************************************************************************)
\* [str(i) for i in range(n)]
ColumnLabels(n) == [i \in 1..n |-> ToString(i - 1)]

MaxLen(rows) ==
    IF rows = <<>> THEN 0
    ELSE CHOOSE m \in {Len(rows[i]) : i \in 1..Len(rows)} :
            \A i \in 1..Len(rows) : Len(rows[i]) <= m

\* pd.DataFrame(list_of_lists, columns=names): the width of the data, when
\* there is any, must be the number of names; shorter rows are padded with
\* the missing value (written -1 here)
DataFrameFromLists(rows, ncols) ==
    IF rows # <<>> /\ MaxLen(rows) # ncols
    THEN [exc |-> "ValueError", cols |-> <<>>, rows |-> <<>>]
    ELSE [exc |-> None,
          cols |-> ColumnLabels(ncols),
          rows |-> [i \in 1..Len(rows) |->
                      IF Len(rows[i]) = ncols THEN rows[i]
                      ELSE [j \in 1..ncols |->
                              IF j <= Len(rows[i]) THEN rows[i][j] ELSE -1]]]

\* faulty variant: labels that are no column of X are skipped silently
SelectPresentColumns(X, keep) ==
    LET present == SelectSeq(keep, LAMBDA l : l \in Range(X.cols))
        at == [k \in 1..Len(present) |->
                 CHOOSE j \in 1..Len(X.cols) : X.cols[j] = present[k]]
    IN  [exc |-> None,
         cols |-> present,
         rows |-> [i \in 1..Len(X.rows) |->
                     [k \in 1..Len(present) |-> X.rows[i][at[k]]]]]

\* X[keep]: the columns named by keep, in the order of keep; a label that
\* is no column of X raises KeyError
SelectColumns(X, keep) ==
    IF \E k \in 1..Len(keep) : keep[k] \notin Range(X.cols)
    THEN [exc |-> "KeyError", cols |-> <<>>, rows |-> <<>>]
    ELSE LET at == [k \in 1..Len(keep) |->
                      CHOOSE j \in 1..Len(X.cols) : X.cols[j] = keep[k]]
         IN  [exc |-> None,
              cols |-> keep,
              rows |-> [i \in 1..Len(X.rows) |->
                          [k \in 1..Len(keep) |-> X.rows[i][at[k]]]]]

\* the trained regressor on one row of selected features
PredictRow(m, row) ==
    m.bias + SumOver(1..Len(row), [k \in 1..Len(row) |-> m.weights[k] * row[k]])

\* faulty variant: the predictions come back in reverse row order
PredictReversed(m, X) ==
    IF X.cols # m.features \/ X.rows = <<>>
    THEN [exc |-> "ValueError", values |-> <<>>]
    ELSE [exc |-> None,
          values |-> [i \in 1..Len(X.rows) |->
                        PredictRow(m, X.rows[Len(X.rows) + 1 - i])]]

\* model.predict(X_reduced): the columns must be the trained feature schema
\* and there must be at least one row
Predict(m, X) ==
    IF X.cols # m.features \/ X.rows = <<>>
    THEN [exc |-> "ValueError", values |-> <<>>]
    ELSE [exc |-> None,
          values |-> [i \in 1..Len(X.rows) |-> PredictRow(m, X.rows[i])]]

\* list(reduced_features_df.columns[:-1])
AllButLast(columns) == SubSeq(columns, 1, Len(columns) - 1)

\* the strings that occur as SMILES cells: the example data, the cells of
\* the uploaded files, and every string over Alphabet of up to MaxSmilesLen
\* characters
Alphabet == {"C", "N", "O", "=", "(", ")", "X"}

SmilesStrings == UNION {[1..k -> Alphabet] : k \in 1..MaxSmilesLen}

SmilesUniverse ==
    SmilesStrings \cup {CCO, CCCC, AcOH, Et3N, iPrOH, Unparseable}

\* compute_morgan_fingerprint is a pure function: its values on the strings
\* of the model, tabulated once (@@ with the empty function changes nothing
\* and makes TLC build the table when it starts)
FingerprintOf ==
    [s \in SmilesUniverse |-> compute_morgan_fingerprint(s)] @@ <<>>

\* molecules_df['SMILES'].apply(compute_morgan_fingerprint): the column
\* must exist; the function is called row by row; a cell that is no str
\* makes MolFromSmiles raise
ApplyFingerprint(t) ==
    IF SMILES \notin Range(t.cols)
    THEN [exc |-> "KeyError", values |-> <<>>]
    ELSE IF \E i \in 1..Len(t.rows) : IsNa(t.rows[i][SMILES])
    THEN [exc |-> "ArgumentError", values |-> <<>>]
    ELSE [exc |-> None,
          values |-> [i \in 1..Len(t.rows) |->
                        FingerprintOf[t.rows[i][SMILES]]]]

\* df[['SMILES', 'Predição_Bioatividade']].to_csv(index=False)
to_csv(t) ==
    [header |-> t.cols,
     lines  |-> [i \in 1..Len(t.rows) |->
                   [j \in 1..Len(t.cols) |->
                      IF t.cols[j] = Predicao
                      THEN ToString(t.rows[i][t.cols[j]])
                      ELSE t.rows[i][t.cols[j]]]]]

\* faulty variant: no copy, the same object under a second name
DataFrameAlias(h, src) == [ref |-> src, heap |-> h]

\* example_data.copy(): a new object holding the same content
DataFrameCopy(h, src) ==
    [ref |-> "run", heap |-> [h EXCEPT !["run"] = h[src]]]

\* st.cache_resource: whether the decorated function's result is stored
IsCached(store, fn) == fn \in store

\* faulty variant: an uploaded file wins over the checkbox
UploadFirst(use_example, uploaded_file) ==
    IF uploaded_file.present THEN "upload"
    ELSE IF use_example THEN "example"
    ELSE "none"

\* lines 98-115: which branch supplies molecules_df
InputSource(use_example, uploaded_file) ==
    IF use_example THEN "example"
    ELSE IF uploaded_file.present THEN "upload"
    ELSE "none"

\* faulty variant: the column name is matched without regard to case
HasSmilesColumnAnyCase(t) == Range(t.cols) \cap {"SMILES", "smiles"} # {}

\* line 107: 'SMILES' in molecules_df.columns
HasSmilesColumn(t) == SMILES \in Range(t.cols)

\* line 117: where the script goes after the input selection
AfterSelection(df) == IF df # None THEN "fingerprint" ELSE "done"

(***************************************************************************)
(* State.                                                                  *)
(***************************************************************************)
VARIABLES
    artifacts,        \* the deployment's files: model and parquet
    cached,           \* st.cache_resource: functions whose result is stored
    loads,            \* how often each cached function's body has returned
    model,            \* global model
    reduced_columns,  \* global reduced_columns
    heap,             \* DataFrame objects: "example", "run", "valid"
    checkbox,         \* widget state: "Usar dados de exemplo"
    uploader,         \* widget state: the file in the uploader
    molecules_df,     \* None or the object molecules_df names
    valid_molecules,  \* None or the object valid_molecules names
    X_reduced,        \* the selected feature table
    calls,            \* library operations this run has invoked
    shown,            \* what this run has displayed (besides errors)
    errors,           \* the st.error messages of this run
    results,          \* the table given to st.dataframe at line 143
    csv,              \* the data of the download button
    exc,              \* the exception being handled, or None
    uncaught,         \* the exception that ended the run, or None
    pc                \* position of the run in the script

vars == <<artifacts, cached, loads, model, reduced_columns, heap, checkbox,
          uploader, molecules_df, valid_molecules, X_reduced, calls, shown,
          errors, results, csv, exc, uncaught, pc>>

process == <<artifacts, cached, loads, model, reduced_columns>>
widgets == <<checkbox, uploader>>
outputs == <<shown, errors, results, csv>>
tables  == <<heap, molecules_df, valid_molecules, X_reduced>>

CachedFunctions ==
    {"load_trained_model", "load_reduced_columns", "load_example_data"}

NoFeatures == [cols |-> <<>>, rows |-> <<>>]
NoCsv == [header |-> <<>>, lines |-> <<>>]

MissingColumnError ==
    [msg |-> "O arquivo deve conter uma coluna chamada 'SMILES'.", e |-> None]
NoValidMoleculesError ==
    [msg |-> "Nenhuma molécula válida encontrada no arquivo.", e |-> None]
GenericError(e) == [msg |-> "Ocorreu um erro: ", e |-> e]

\* the locals and outputs of a run before its first statement
FreshRun ==
    /\ molecules_df = None
    /\ valid_molecules = None
    /\ X_reduced = NoFeatures
    /\ calls = {}
    /\ shown = {}
    /\ errors = {}
    /\ results = EmptyTable
    /\ csv = NoCsv
    /\ exc = None
    /\ uncaught = None

Init ==
    /\ artifacts \in Deployments
    /\ cached = {}
    /\ loads = [f \in CachedFunctions |-> 0]
    /\ model = NoModel
    /\ reduced_columns = <<>>
    /\ heap = [o \in {"example", "run", "valid"} |-> EmptyTable]
    /\ checkbox = FALSE
    /\ uploader = NoFile
    /\ FreshRun
    /\ pc = "load_model"

Count(f) == [loads EXCEPT ![f] = Min(loads[f] + 1, MaxLoads)]

(***************************************************************************)
(* Lines 16-29 and 80-93: the cached loaders, called at module level.      *)
(***************************************************************************)
LoadTrainedModel ==
    /\ pc = "load_model"
    /\ IF IsCached(cached, "load_trained_model")
       THEN /\ pc' = "load_reduced"
            /\ UNCHANGED <<cached, loads, model, uncaught>>
       ELSE IF ~artifacts.model.present
       THEN /\ uncaught' = "FileNotFoundError"
            /\ pc' = "aborted"
            /\ UNCHANGED <<cached, loads, model>>
       ELSE /\ model' = artifacts.model
            /\ cached' = cached \cup {"load_trained_model"}
            /\ loads' = Count("load_trained_model")
            /\ pc' = "load_reduced"
            /\ UNCHANGED uncaught
    /\ UNCHANGED <<artifacts, reduced_columns, widgets, tables, calls,
                   outputs, exc>>

LoadReducedColumns ==
    /\ pc = "load_reduced"
    /\ IF IsCached(cached, "load_reduced_columns")
       THEN /\ pc' = "load_example"
            /\ UNCHANGED <<cached, loads, reduced_columns, uncaught>>
       ELSE IF ~artifacts.parquet.present
       THEN /\ uncaught' = "FileNotFoundError"
            /\ pc' = "aborted"
            /\ UNCHANGED <<cached, loads, reduced_columns>>
       ELSE /\ reduced_columns' = AllButLast(artifacts.parquet.columns)
            /\ cached' = cached \cup {"load_reduced_columns"}
            /\ loads' = Count("load_reduced_columns")
            /\ pc' = "load_example"
            /\ UNCHANGED uncaught
    /\ UNCHANGED <<artifacts, model, widgets, tables, calls, outputs, exc>>

LoadExampleData ==
    /\ pc = "load_example"
    /\ IF IsCached(cached, "load_example_data")
       THEN UNCHANGED <<cached, loads, heap>>
       ELSE /\ heap' = [heap EXCEPT !["example"] = ExampleData]
            /\ cached' = cached \cup {"load_example_data"}
            /\ loads' = Count("load_example_data")
    /\ pc' = "select_input"
    /\ UNCHANGED <<artifacts, model, reduced_columns, widgets, molecules_df,
                   valid_molecules, X_reduced, calls, outputs, exc, uncaught>>

(***************************************************************************)
(* Lines 95-115: the source of molecules_df.                               *)
(***************************************************************************)
SelectInput ==
    /\ pc = "select_input"
    /\ IF InputSource(checkbox, uploader) = "example"
       THEN LET c == DataFrameCopy(heap, "example")
            IN  /\ heap' = c.heap
                /\ molecules_df' = c.ref
                /\ shown' = shown \cup {"loaded", "preview"}
                /\ pc' = "check_loaded"
                /\ UNCHANGED <<calls, errors, uncaught>>
       ELSE IF InputSource(checkbox, uploader) = "upload"
       THEN LET r == read_csv(uploader)
            IN  /\ calls' = calls \cup {"read_csv"}
                /\ IF r.exc # None
                   THEN /\ uncaught' = r.exc
                        /\ pc' = "aborted"
                        /\ UNCHANGED <<heap, molecules_df, shown, errors>>
                   ELSE IF ~HasSmilesColumn(r.table)
                   THEN /\ errors' = errors \cup {MissingColumnError}
                        /\ molecules_df' = None
                        /\ heap' = [heap EXCEPT !["run"] = r.table]
                        /\ pc' = "check_loaded"
                        /\ UNCHANGED <<shown, uncaught>>
                   ELSE /\ heap' = [heap EXCEPT !["run"] = r.table]
                        /\ molecules_df' = "run"
                        /\ shown' = shown \cup {"loaded", "preview"}
                        /\ pc' = "check_loaded"
                        /\ UNCHANGED <<errors, uncaught>>
       ELSE /\ molecules_df' = None
            /\ pc' = "check_loaded"
            /\ UNCHANGED <<heap, calls, shown, errors, uncaught>>
    /\ UNCHANGED <<process, widgets, valid_molecules, X_reduced, results,
                   csv, exc>>

\* line 117: if molecules_df is not None, followed by the try
CheckLoaded ==
    /\ pc = "check_loaded"
    /\ pc' = AfterSelection(molecules_df)
    /\ UNCHANGED <<process, widgets, tables, calls, outputs, exc, uncaught>>

(***************************************************************************)
(* Lines 118-159: processing, inside the try.                              *)
(***************************************************************************)
\* faulty variant: the exception leaves the script instead of reaching
\* the except clause
RaiseUncaught(e) ==
    /\ exc' = e
    /\ pc' = "aborted"

Raise(e) ==
    /\ exc' = e
    /\ pc' = "except"

\* line 121
ComputeFingerprints ==
    /\ pc = "fingerprint"
    /\ LET r == ApplyFingerprint(heap[molecules_df])
       IN  /\ calls' = calls \cup {"compute_morgan_fingerprint"}
           /\ IF r.exc # None
              THEN /\ Raise(r.exc)
                   /\ UNCHANGED heap
              ELSE /\ heap' = [heap EXCEPT ![molecules_df] =
                                  SetColumn(@, Fingerprint, r.values)]
                   /\ pc' = "filter"
                   /\ UNCHANGED exc
    /\ UNCHANGED <<process, widgets, molecules_df, valid_molecules,
                   X_reduced, outputs, uncaught>>

\* lines 124-128
FilterValid ==
    /\ pc = "filter"
    /\ LET v == DropNa(heap[molecules_df], Fingerprint)
       IN  /\ heap' = [heap EXCEPT !["valid"] = v]
           /\ valid_molecules' = "valid"
           /\ calls' = calls \cup {"dropna"}
           /\ IF IsEmpty(v)
              THEN /\ errors' = errors \cup {NoValidMoleculesError}
                   /\ pc' = "done"
                   /\ UNCHANGED shown
              ELSE /\ shown' = shown \cup {"processed"}
                   /\ pc' = "select_features"
                   /\ UNCHANGED errors
    /\ UNCHANGED <<process, widgets, molecules_df, X_reduced, results, csv,
                   exc, uncaught>>

FingerprintLists(t) == [i \in 1..Len(t.rows) |-> t.rows[i][Fingerprint]]

\* lines 131-133
SelectFeatures ==
    /\ pc = "select_features"
    /\ \E X \in {DataFrameFromLists(FingerprintLists(heap[valid_molecules]),
                                    NumFpColumns)} :
           IF X.exc # None
           THEN /\ Raise(X.exc)
                /\ UNCHANGED <<X_reduced, calls>>
           ELSE LET R == SelectColumns(X, reduced_columns)
                IN  /\ calls' = calls \cup {"select"}
                    /\ IF R.exc # None
                       THEN /\ Raise(R.exc)
                            /\ UNCHANGED X_reduced
                       ELSE /\ X_reduced' = [cols |-> R.cols, rows |-> R.rows]
                            /\ pc' = "predict"
                            /\ UNCHANGED exc
    /\ UNCHANGED <<process, widgets, heap, molecules_df, valid_molecules,
                   outputs, uncaught>>

\* lines 136-138
RunPredict ==
    /\ pc = "predict"
    /\ LET r == Predict(model, X_reduced)
       IN  /\ calls' = calls \cup {"predict"}
           /\ shown' = shown \cup {"predicting"}
           /\ IF r.exc # None
              THEN /\ Raise(r.exc)
                   /\ UNCHANGED heap
              ELSE /\ heap' = [heap EXCEPT ![valid_molecules] =
                                  SetColumn(@, Predicao, r.values)]
                   /\ pc' = "show_results"
                   /\ UNCHANGED exc
    /\ UNCHANGED <<process, widgets, molecules_df, valid_molecules,
                   X_reduced, errors, results, csv, uncaught>>

\* lines 141-143
ShowResults ==
    /\ pc = "show_results"
    /\ results' = Project(heap[valid_molecules], <<SMILES, Predicao>>)
    /\ shown' = shown \cup {"concluded", "results"}
    /\ pc' = "chart"
    /\ UNCHANGED <<process, widgets, tables, calls, errors, csv, exc,
                   uncaught>>

\* lines 146-148; the charting library may raise
ShowChart ==
    /\ pc = "chart"
    /\ calls' = calls \cup {"histogram"}
    /\ \/ /\ shown' = shown \cup {"chart"}
          /\ pc' = "export"
          /\ UNCHANGED exc
       \/ /\ Raise("ChartError")
          /\ UNCHANGED shown
    /\ UNCHANGED <<process, widgets, tables, errors, results, csv, uncaught>>

\* lines 150-157
OfferDownload ==
    /\ pc = "export"
    /\ calls' = calls \cup {"to_csv"}
    /\ csv' = to_csv(Project(heap[valid_molecules], <<SMILES, Predicao>>))
    /\ shown' = shown \cup {"download"}
    /\ pc' = "done"
    /\ UNCHANGED <<process, widgets, tables, errors, results, exc, uncaught>>

\* lines 158-159
HandleException ==
    /\ pc = "except"
    /\ errors' = errors \cup {GenericError(exc)}
    /\ exc' = None
    /\ pc' = "done"
    /\ UNCHANGED <<process, widgets, tables, calls, shown, results, csv,
                   uncaught>>

(***************************************************************************)
(* A user action (checkbox toggle, upload, removal of the file) after the  *)
(* script has finished: the script runs again from its first line, with    *)
(* fresh locals and a cleared page; the cache and the objects it holds     *)
(* stay.                                                                   *)
(***************************************************************************)
Rerun ==
    /\ pc \in {"done", "aborted"}
    /\ checkbox' \in BOOLEAN
    /\ uploader' \in UploadPool \cup {NoFile}
    /\ molecules_df' = None
    /\ valid_molecules' = None
    /\ X_reduced' = NoFeatures
    /\ calls' = {}
    /\ shown' = {}
    /\ errors' = {}
    /\ results' = EmptyTable
    /\ csv' = NoCsv
    /\ exc' = None
    /\ uncaught' = None
    /\ heap' = [heap EXCEPT !["run"] = EmptyTable, !["valid"] = EmptyTable]
    /\ pc' = "load_model"
    /\ UNCHANGED process

Step ==
    \/ LoadTrainedModel
    \/ LoadReducedColumns
    \/ LoadExampleData
    \/ SelectInput
    \/ CheckLoaded
    \/ ComputeFingerprints
    \/ FilterValid
    \/ SelectFeatures
    \/ RunPredict
    \/ ShowResults
    \/ ShowChart
    \/ OfferDownload
    \/ HandleException

Next == Step \/ Rerun

Spec == Init /\ [][Next]_vars

\* the script is executed to its end once a run has started
FairSpec == Spec /\ WF_vars(Step)

(***************************************************************************)
(* The encoder on its own: the run stands at line 121 with an uploaded     *)
(* one-row table whose SMILES cell is any string over the alphabet up to   *)
(* MaxSmilesLen characters, and line 121 is executed.                      *)
(***************************************************************************)
EncodeInit ==
    \E s \in SmilesStrings :
        /\ artifacts = ConsistentDeployment
        /\ cached = CachedFunctions
        /\ loads = [f \in CachedFunctions |-> 1]
        /\ model = ConsistentDeployment.model
        /\ reduced_columns = AllButLast(ConsistentDeployment.parquet.columns)
        /\ checkbox = FALSE
        /\ uploader = [present |-> TRUE, header |-> <<SMILES>>,
                       records |-> <<<<s>>>>]
        /\ heap = [o \in {"example", "run", "valid"} |->
                     CASE o = "example" -> ExampleData
                       [] o = "run" -> read_csv(uploader).table
                       [] o = "valid" -> EmptyTable]
        /\ molecules_df = "run"
        /\ valid_molecules = None
        /\ X_reduced = NoFeatures
        /\ calls = {"read_csv"}
        /\ shown = {"loaded", "preview"}
        /\ errors = {}
        /\ results = EmptyTable
        /\ csv = NoCsv
        /\ exc = None
        /\ uncaught = None
        /\ pc = "fingerprint"

EncodeNext == ComputeFingerprints

EncodeSpec == EncodeInit /\ [][EncodeNext]_vars


(***************************************************************************)
(* Vocabulary of the properties.                                           *)
(***************************************************************************)
\* positions inside the try block of lines 118-159
ProcessingPcs ==
    {"fingerprint", "filter", "select_features", "predict", "show_results",
     "chart", "export", "except"}

\* positions after the input selection of lines 95-115
AfterSelectionPcs == ProcessingPcs \cup {"check_loaded", "done"}

HasGenericError == \E m \in errors : m.msg = "Ocorreu um erro: "

\* results table, chart or download button displayed by this run
PartialResults == shown \cap {"results", "chart", "download"}

Succeeded == pc = "done" /\ "download" \in shown

Failed == pc = "done" /\ (NoValidMoleculesError \in errors \/ HasGenericError)

\* the states of the specification's state machine, read off the script
Phase ==
    IF pc \in ProcessingPcs THEN "Processing"
    ELSE IF pc = "check_loaded" /\ molecules_df # None THEN "DataLoaded"
    ELSE IF Succeeded THEN "Succeeded"
    ELSE IF Failed THEN "Failed"
    ELSE "Idle"

\* what read_csv makes of the file in the uploader
UploadedTable == read_csv(uploader)

\* the rows the run was given
InputRows == IF checkbox THEN ExampleData.rows ELSE UploadedTable.table.rows

\* position of a column label among "0".."1023"
LabelIndex(label) == CHOOSE j \in 1..1024 : ToString(j - 1) = label

\* the regressor applied to the fingerprint of one SMILES string
ExpectedPrediction(smiles) ==
    LET fp == compute_morgan_fingerprint(smiles)
        K  == 1..Len(model.features)
    IN  model.bias
          + SumOver(K, [k \in K |->
                model.weights[k] * fp[LabelIndex(model.features[k])]])

KeepPresent ==
    \A k \in 1..Len(reduced_columns) :
        \E j \in 0..1023 : ToString(j) = reduced_columns[k]

(***************************************************************************)
(* C1.  A run with the checkbox off and an uploaded file whose parsed      *)
(* table has no column named exactly SMILES reports the "must contain a    *)
(* column named SMILES" error, and never computes a fingerprint, never     *)
(* selects features and never calls predict.                               *)
(***************************************************************************)
MissingColumnCase ==
    /\ ~checkbox
    /\ uploader.present
    /\ UploadedTable.exc = None
    /\ SMILES \notin Range(UploadedTable.table.cols)

C1_MissingColumnStopsRun ==
    MissingColumnCase =>
        /\ calls \cap {"compute_morgan_fingerprint", "dropna", "select",
                       "predict"} = {}
        /\ pc \notin ProcessingPcs
        /\ pc \in AfterSelectionPcs =>
              /\ MissingColumnError \in errors
              /\ molecules_df = None

C1_Witness ==
    /\ MissingColumnCase
    /\ pc = "done"
    /\ MissingColumnError \in errors

(***************************************************************************)
(* C2.  Every exception of a run is caught by the handler of line 158 and  *)
(* reported as the generic message, and a run that ends in that message    *)
(* has shown no results table, chart or download.                          *)
(***************************************************************************)
C2_AllExceptionsHandled ==
    pc \in {"done", "aborted"} =>
        /\ uncaught = None
        /\ HasGenericError => PartialResults = {}

(***************************************************************************)
(* C3.  compute_morgan_fingerprint returns, for every string, a vector of  *)
(* exactly 1024 non-negative integers without raising, and the vector is   *)
(* all zeros when the string does not parse into a molecule.               *)
(***************************************************************************)
EncodedSmiles == heap["run"].rows[1][SMILES]

EncodedVector == heap["run"].rows[1][Fingerprint]

C3_EncodeTotal ==
    /\ pc # "except"
    /\ exc = None
    /\ pc = "filter" =>
          /\ Len(EncodedVector) = 1024
          /\ \A i \in 1..1024 : EncodedVector[i] \in Nat
          /\ MolFromSmiles(EncodedSmiles).isNone =>
                \A i \in 1..1024 : EncodedVector[i] = 0

C3_Witness ==
    /\ pc = "filter"
    /\ MolFromSmiles(EncodedSmiles).isNone
    /\ Len(EncodedVector) = 1024
    /\ \A i \in 1..1024 : EncodedVector[i] = 0

(***************************************************************************)
(* C4.  The filter drops no row, and a run that succeeds on a table of N   *)
(* rows shows N prediction rows, each with a prediction, unparseable       *)
(* molecules included; the example data gives 5 rows.                      *)
(***************************************************************************)
C4_NoRowDropped ==
    /\ valid_molecules # None =>
          Len(heap[valid_molecules].rows) = Len(heap[molecules_df].rows)
    /\ Succeeded =>
          /\ Len(InputRows) >= 1
          /\ Len(results.rows) = Len(InputRows)
          /\ Len(csv.lines) = Len(InputRows)
          /\ checkbox => Len(results.rows) = 5
          /\ \A i \in 1..Len(results.rows) :
                /\ results.rows[i][Predicao] \in Int
                /\ results.rows[i][SMILES] = InputRows[i][SMILES]

C4_Witness ==
    /\ Succeeded
    /\ ~checkbox
    /\ Len(results.rows) >= 2
    /\ \A i \in 1..Len(results.rows) :
          MolFromSmiles(results.rows[i][SMILES]).isNone

(***************************************************************************)
(* C5.  When no row is left after the filter, the run reports the "no      *)
(* valid molecules" error and is over: no feature selection, no predict,   *)
(* no results table, chart or download.                                    *)
(***************************************************************************)
EmptyValidSet ==
    /\ valid_molecules # None
    /\ Len(heap[valid_molecules].rows) = 0

C5_EmptyValidSetStops ==
    EmptyValidSet =>
        /\ NoValidMoleculesError \in errors
        /\ pc = "done"
        /\ calls \cap {"select", "predict", "histogram", "to_csv"} = {}
        /\ PartialResults = {}
        /\ results = EmptyTable
        /\ csv = NoCsv

C5_Witness ==
    /\ EmptyValidSet
    /\ pc = "done"
    /\ errors = {NoValidMoleculesError}

(***************************************************************************)
(* C6.  Every submission follows Idle -> DataLoaded -> Processing ->       *)
(* {Succeeded, Failed}: Processing is entered only from DataLoaded and     *)
(* left only to Succeeded or Failed, which it always reaches, never both;  *)
(* nothing leaves Succeeded or Failed but a new run, and a new run starts  *)
(* in Idle.                                                                *)
(***************************************************************************)
NewRunFromIdle == pc' = "load_model" /\ Phase' = "Idle"

C6_StateMachine ==
    /\ [][(Phase' = "Processing" /\ Phase # "Processing")
              => Phase = "DataLoaded"]_vars
    /\ [][(Phase' = "DataLoaded" /\ Phase # "DataLoaded")
              => Phase = "Idle"]_vars
    /\ [][Phase = "Processing"
              => Phase' \in {"Processing", "Succeeded", "Failed"}]_vars
    /\ [][(Phase' \in {"Succeeded", "Failed"} /\ Phase' # Phase)
              => Phase = "Processing"]_vars
    /\ [][(Phase \in {"Succeeded", "Failed"}) => NewRunFromIdle]_vars
    /\ [][pc' = "load_model" => Phase' = "Idle"]_vars
    /\ [](~(Succeeded /\ Failed))
    /\ (Phase = "Processing") ~> (Phase \in {"Succeeded", "Failed"})

C6_Witness ==
    /\ Phase = "Failed"
    /\ HasGenericError
    /\ "compute_morgan_fingerprint" \in calls

(***************************************************************************)
(* C7.  In a run that succeeds, the results table and the download have    *)
(* exactly the columns SMILES and Predição_Bioatividade and one row per    *)
(* row left after the filter, in the same order; the prediction of row i   *)
(* is the model's output for the fingerprint of the SMILES of row i.       *)
(***************************************************************************)
C7_ResultTable ==
    Succeeded =>
        LET valid == heap["valid"].rows
        IN  /\ results.cols = <<"SMILES", "Predição_Bioatividade">>
            /\ csv.header = <<"SMILES", "Predição_Bioatividade">>
            /\ Len(results.rows) = Len(valid)
            /\ Len(csv.lines) = Len(valid)
            /\ \A i \in 1..Len(valid) :
                  LET smi == valid[i][SMILES]
                      y   == ExpectedPrediction(smi)
                  IN  /\ DOMAIN results.rows[i] = {SMILES, Predicao}
                      /\ results.rows[i][SMILES] = smi
                      /\ results.rows[i][Predicao] = y
                      /\ csv.lines[i] = <<smi, ToString(y)>>

C7_Witness ==
    /\ Succeeded
    /\ Len(results.rows) >= 2
    /\ results.rows[1][Predicao] # results.rows[2][Predicao]

(***************************************************************************)
(* C8.  If a label of the reduced feature list is none of "0".."1023",     *)
(* feature selection raises: predict is not called, the run ends Failed    *)
(* through the handler of line 158 and produces no prediction rows.  If    *)
(* every label is present, the selection has exactly the labels of the     *)
(* list, in its order, with the values of those fingerprint positions.     *)
(***************************************************************************)
C8_SelectionStrict ==
    "select" \in calls =>
        IF ~KeepPresent
        THEN /\ "predict" \notin calls
             /\ pc \in {"except", "done"}
             /\ pc = "except" => exc = "KeyError"
             /\ pc = "done" => (Failed /\ GenericError("KeyError") \in errors)
             /\ X_reduced = NoFeatures
             /\ results = EmptyTable
             /\ PartialResults = {}
        ELSE /\ exc # "KeyError"
             /\ pc # "select_features"
             /\ X_reduced.cols = reduced_columns
             /\ Len(X_reduced.rows) = Len(heap["valid"].rows)
             /\ \A i \in 1..Len(X_reduced.rows) :
                   /\ Len(X_reduced.rows[i]) = Len(reduced_columns)
                   /\ \A k \in 1..Len(reduced_columns) :
                         X_reduced.rows[i][k] =
                            heap["valid"].rows[i][Fingerprint]
                                [LabelIndex(reduced_columns[k])]

C8_Witness ==
    /\ ~KeepPresent
    /\ pc = "done"
    /\ GenericError("KeyError") \in errors
    /\ "predict" \notin calls

(***************************************************************************)
(* C9.  The model, the reduced feature list and the example data are each  *)
(* loaded at most once in the process and keep the loaded value: the       *)
(* cached example data always has its single SMILES column and 5 rows,     *)
(* whatever the runs before did to their copy.                             *)
(***************************************************************************)
C9_CachedArtifactsImmutable ==
    /\ \A f \in CachedFunctions :
          /\ loads[f] <= 1
          /\ loads[f] = 1 <=> f \in cached
    /\ "load_trained_model" \in cached => model = artifacts.model
    /\ "load_reduced_columns" \in cached =>
          reduced_columns = AllButLast(artifacts.parquet.columns)
    /\ "load_example_data" \in cached =>
          /\ heap["example"].cols = <<"SMILES">>
          /\ Len(heap["example"].rows) = 5
          /\ heap["example"] = ExampleData

C9_Witness ==
    /\ checkbox
    /\ Succeeded
    /\ Fingerprint \in Range(heap["run"].cols)
    /\ Predicao \in Range(heap["valid"].cols)
    /\ heap["example"] = ExampleData
    /\ \A f \in CachedFunctions : loads[f] = 1

(***************************************************************************)
(* C10.  With the checkbox on, the processed table is a copy of the        *)
(* example data and no uploaded file is read or validated; with the        *)
(* checkbox off and no file, nothing is processed, predict is not called   *)
(* and no error message is shown.                                          *)
(***************************************************************************)
C10_InputSelection ==
    /\ checkbox =>
          /\ "read_csv" \notin calls
          /\ MissingColumnError \notin errors
          /\ uncaught \notin {"EmptyDataError", "ParserError"}
          /\ pc \in AfterSelectionPcs =>
                /\ molecules_df # None
                /\ Project(heap[molecules_df], <<SMILES>>) = ExampleData
    /\ (~checkbox /\ ~uploader.present) =>
          /\ molecules_df = None
          /\ pc \notin ProcessingPcs
          /\ calls = {}
          /\ errors = {}
          /\ shown = {}

C10_Witness ==
    /\ checkbox
    /\ uploader.present
    /\ SMILES \notin Range(uploader.header)
    /\ Succeeded

==========================================================================
